---- MODULE Spec2Model ----
(***************************************************************************)
(* Model of the poker-table perception pipeline: the OCR sampler and its   *)
(* hand-lifecycle state machine (ocr.py), the field cleaner / validator    *)
(* (ml_pipeline.py) and the overlay's polling loop with its worker threads *)
(* (main.py).                                                              *)
(*                                                                         *)
(* A Python str is a sequence of one-character strings.  The four suit     *)
(* symbols are single characters written by their code points.  Python     *)
(* None is the empty sequence wherever the code only tests truthiness.     *)
(***************************************************************************)
EXTENDS Integers, Sequences, FiniteSets, TLC

(***************************************************************************)
(* Characters and strings                                                  *)
(***************************************************************************)
Club == "U+2663"
Heart == "U+2665"
Diamond == "U+2666"
Spade == "U+2660"

SuitSymbols == {Spade, Heart, Diamond, Club}

NA == <<"N", "/", "A">>
DASHES == <<"-", "-">>
EmptyStr == <<>>

\* Python's built-in str operations (upper, lower, strip, replace, split,
\* join, startswith, endswith, in) and, further down, float()
LowerLetters ==
  <<"a","b","c","d","e","f","g","h","i","j","k","l","m",
    "n","o","p","q","r","s","t","u","v","w","x","y","z">>

UpperLetters ==
  <<"A","B","C","D","E","F","G","H","I","J","K","L","M",
    "N","O","P","Q","R","S","T","U","V","W","X","Y","Z">>

Digits == {"0","1","2","3","4","5","6","7","8","9"}

Whitespace == {" ", "\t", "\n"}

IndexIn(c, letters) ==
  IF \E i \in 1..Len(letters) : letters[i] = c
    THEN CHOOSE i \in 1..Len(letters) : letters[i] = c
    ELSE 0

UpperChar(c) ==
  LET i == IndexIn(c, LowerLetters) IN IF i = 0 THEN c ELSE UpperLetters[i]

LowerChar(c) ==
  LET i == IndexIn(c, UpperLetters) IN IF i = 0 THEN c ELSE LowerLetters[i]

\* str.upper()
Upper(s) == [i \in 1..Len(s) |-> UpperChar(s[i])]

\* str.lower()
Lower(s) == [i \in 1..Len(s) |-> LowerChar(s[i])]

\* str.strip()
Strip(s) ==
  LET keep == {i \in 1..Len(s) : s[i] \notin Whitespace}
  IN  IF keep = {} THEN EmptyStr
      ELSE LET lo == CHOOSE i \in keep : \A j \in keep : i <= j
               hi == CHOOSE i \in keep : \A j \in keep : i >= j
           IN  SubSeq(s, lo, hi)

\* str.replace(c, "") for a one-character c
RemoveChar(s, c) == SelectSeq(s, LAMBDA x : x # c)

\* str.startswith / str.endswith
StartsWith(s, p) == Len(s) >= Len(p) /\ SubSeq(s, 1, Len(p)) = p
EndsWith(s, p) == Len(s) >= Len(p) /\ SubSeq(s, Len(s) - Len(p) + 1, Len(s)) = p

\* sub in s
Contains(s, sub) ==
  \E i \in 1..(Len(s) - Len(sub) + 1) : SubSeq(s, i, i + Len(sub) - 1) = sub

\* str.split(): the whitespace-separated parts, in order
RECURSIVE Split(_)
Split(s) ==
  IF s = EmptyStr THEN <<>>
  ELSE IF s[1] \in Whitespace THEN Split(Tail(s))
  ELSE LET stops == {i \in 1..Len(s) : s[i] \in Whitespace}
           stop == IF stops = {} THEN Len(s) + 1
                   ELSE CHOOSE i \in stops : \A j \in stops : i <= j
       IN  <<SubSeq(s, 1, stop - 1)>> \o Split(SubSeq(s, stop, Len(s)))

\* " ".join(parts)
RECURSIVE JoinSpace(_)
JoinSpace(parts) ==
  IF parts = <<>> THEN EmptyStr
  ELSE IF Len(parts) = 1 THEN parts[1]
  ELSE parts[1] \o <<" ">> \o JoinSpace(Tail(parts))

AllDigits(s) == \A i \in 1..Len(s) : s[i] \in Digits

\* float(s) succeeds: an optional sign, then digits with an optional
\* fraction, or one of the special spellings (exponents are not modelled)
IsFloatBody(s) ==
  \/ Upper(s) \in {<<"N","A","N">>, <<"I","N","F">>,
                   <<"I","N","F","I","N","I","T","Y">>}
  \/ /\ s # EmptyStr
     /\ Cardinality({i \in 1..Len(s) : s[i] = "."}) <= 1
     /\ AllDigits(RemoveChar(s, "."))
     /\ RemoveChar(s, ".") # EmptyStr

IsFloat(s0) ==
  LET s == Strip(s0)
  IN  /\ s # EmptyStr
      /\ IF s[1] \in {"+", "-"} THEN IsFloatBody(Tail(s)) ELSE IsFloatBody(s)

(***************************************************************************)
(* Screen captures.  A capture of a region either fails (the grab raises)  *)
(* or yields a value: the recognised text tokens, or the mean colour.      *)
(***************************************************************************)
Captured(v) == [ok |-> TRUE, v |-> <<v>>]
CaptureFailed == [ok |-> FALSE, v |-> <<>>]
Got(c) == c.v[1]

\* result of a call that may raise
Returned(v) == [raised |-> FALSE, v |-> <<v>>]
Raised == [raised |-> TRUE, v |-> <<>>]
Val(r) == r.v[1]

Seats == <<"Hero", "Player 2", "Player 3", "Player 4",
           "Player 5", "Player 6", "Player 7">>

SeatSet == {Seats[i] : i \in 1..Len(Seats)}

SeatIndex(p) == CHOOSE i \in 1..Len(Seats) : Seats[i] = p

\* the members of a set of seats, in seat enumeration order
SeatList(S) == SelectSeq(Seats, LAMBDA p : p \in S)

Dist2(a, b) ==
  (a[1] - b[1]) * (a[1] - b[1]) + (a[2] - b[2]) * (a[2] - b[2])
    + (a[3] - b[3]) * (a[3] - b[3])

\* OCR._first: the first recognised token, or "N/A"
_first(cap) ==
  IF ~cap.ok THEN Raised
  ELSE IF Got(cap) # <<>> THEN Returned(Got(cap)[1]) ELSE Returned(NA)

\* the first whitespace-separated part (commas removed) that float() accepts
RECURSIVE FirstFloatPart(_)
FirstFloatPart(parts) ==
  IF parts = <<>> THEN EmptyStr
  ELSE IF IsFloat(parts[1]) THEN parts[1]
  ELSE FirstFloatPart(Tail(parts))

RECURSIVE PotScan(_)
PotScan(raw) ==
  IF raw = <<>> THEN NA
  ELSE LET part == FirstFloatPart(Split(RemoveChar(raw[1], ",")))
       IN  IF part # EmptyStr THEN part ELSE PotScan(Tail(raw))

\* OCR._pot
_pot(cap) == IF ~cap.ok THEN Raised ELSE Returned(PotScan(Got(cap)))

suit_rgb ==
  << <<Club, <<27, 108, 27>> >>, <<Heart, <<21, 82, 145>> >>,
     <<Diamond, <<162, 32, 33>> >>, <<Spade, <<41, 43, 41>> >> >>

\* OCR._suit: the nearest reference colour, the first one on a tie
_suit(cap) ==
  IF ~cap.ok THEN Raised
  ELSE LET rgb == Got(cap)
           d(i) == Dist2(rgb, suit_rgb[i][2])
           best == CHOOSE i \in 1..Len(suit_rgb) :
                     /\ \A j \in 1..Len(suit_rgb) : d(i) <= d(j)
                     /\ \A j \in 1..(i - 1) : d(j) > d(i)
       IN  Returned(suit_rgb[best][1])

valid_cards ==
  { <<"A">>, <<"K">>, <<"Q">>, <<"J">>, <<"1","0">>, <<"2">>, <<"3">>,
    <<"4">>, <<"5">>, <<"6">>, <<"7">>, <<"8">>, <<"9">> }

\* _smart_card_correction passing every non-empty token through
_smart_card_correction_PassThrough(text_raw) ==
  IF text_raw = EmptyStr THEN EmptyStr ELSE Upper(Strip(text_raw))

\* OCR._smart_card_correction; None is the empty string
_smart_card_correction(text_raw) ==
  IF text_raw = EmptyStr THEN EmptyStr
  ELSE LET text == Upper(Strip(text_raw))
       IN  IF text \in valid_cards THEN text
           ELSE IF text \in { <<"0">>, <<"O">> } THEN <<"Q">>
           ELSE IF text \in { <<"1","0">>, <<"T","O">>, <<"1","O">>,
                              <<"I","O">>, <<"L","O">> } THEN <<"1","0">>
           ELSE IF /\ Len(text) = 1
                   /\ text[1] \in Digits \ {"0", "1"} THEN text
           ELSE EmptyStr

\* card() of OCR._hero_cards: the first token that corrects to a rank, with
\* the suit sampled only then; None is the empty string
RECURSIVE FirstCorrected(_)
FirstCorrected(card_texts) ==
  IF card_texts = <<>> THEN EmptyStr
  ELSE LET corrected_value == _smart_card_correction(card_texts[1])
       IN  IF corrected_value # EmptyStr THEN corrected_value
           ELSE FirstCorrected(Tail(card_texts))

HeroCard(reg) ==
  IF ~reg.text.ok THEN Raised
  ELSE LET corrected_value == FirstCorrected(Got(reg.text))
       IN  IF corrected_value = EmptyStr THEN Returned(EmptyStr)
           ELSE LET suit == _suit(reg.suit)
                IN  IF suit.raised THEN Raised
                    ELSE Returned(corrected_value \o <<Val(suit)>>)

\* OCR._hero_cards
_hero_cards(regs) ==
  LET c1 == HeroCard(regs[1])
  IN  IF c1.raised THEN Raised
      ELSE LET c2 == HeroCard(regs[2])
           IN  IF c2.raised THEN Raised
               ELSE Returned(SelectSeq(<<Val(c1), Val(c2)>>,
                                       LAMBDA c : c # EmptyStr))

\* one board region of OCR._board: only the first token is considered
BoardCard(reg) ==
  IF ~reg.text.ok THEN Raised
  ELSE IF Got(reg.text) = <<>> THEN Returned(EmptyStr)
  ELSE LET corrected_value == _smart_card_correction(Got(reg.text)[1])
       IN  IF corrected_value = EmptyStr THEN Returned(EmptyStr)
           ELSE LET suit == _suit(reg.suit)
                IN  IF suit.raised THEN Raised
                    ELSE Returned(corrected_value \o <<Val(suit)>>)

\* OCR._board
RECURSIVE _board(_)
_board(regs) ==
  IF regs = <<>> THEN Returned(<<>>)
  ELSE LET c == BoardCard(regs[1])
       IN  IF c.raised THEN Raised
           ELSE LET rest == _board(Tail(regs))
                IN  IF rest.raised THEN Raised
                    ELSE Returned((IF Val(c) = EmptyStr THEN <<>>
                                   ELSE <<Val(c)>>) \o Val(rest))

\* OCR._bankrolls: every seat is read; the seated players are those whose
\* reading is not "N/A".  Returns the readings and the seated list.
_bankrolls(caps) ==
  IF \E p \in SeatSet : ~caps[p].ok THEN Raised
  ELSE LET br == [p \in SeatSet |-> Val(_first(caps[p]))]
       IN  Returned([br |-> br,
                     seated_players |-> SeatList({p \in SeatSet : br[p] # NA})])

Members(seq) == {seq[i] : i \in 1..Len(seq)}

\* OCR._vpips: only seated players are read
_vpips(caps, seated_players) ==
  IF \E p \in Members(seated_players) : ~caps[p].ok THEN Raised
  ELSE Returned([p \in Members(seated_players) |->
                   Val(_first(caps[p])) \o <<"%">>])

btn_rgb == <<99, 182, 231>>

position_labels == << <<"B","T","N">>, <<"S","B">>, <<"B","B">>,
                      <<"U","T","G">>, <<"M","P">>, <<"C","O">>, <<"H","J">> >>

\* distance of a seat's indicator to the button colour; a failed capture is
\* caught and counts as infinitely far
PosDist(cap) ==
  IF cap.ok THEN [inf |-> FALSE, d |-> Dist2(Got(cap), btn_rgb)]
  ELSE [inf |-> TRUE, d |-> 0]

DistLess(a, b) == IF a.inf THEN FALSE ELSE IF b.inf THEN TRUE ELSE a.d < b.d

\* _positions labelling the seated players in seat order, without rotation
_positions_NoRotation(caps, seated_players) ==
  IF seated_players = <<>> THEN [p \in {} |-> DASHES]
  ELSE [p \in Members(seated_players) |->
          position_labels[CHOOSE k \in 1..Len(seated_players) :
                            seated_players[k] = p]]

\* OCR._positions
_positions(caps, seated_players) ==
  IF seated_players = <<>> THEN [p \in {} |-> DASHES]
  ELSE LET n == Len(seated_players)
           dists(i) == PosDist(caps[seated_players[i]])
           b == CHOOSE i \in 1..n :
                  /\ \A j \in 1..n : ~DistLess(dists(j), dists(i))
                  /\ \A j \in 1..(i - 1) : DistLess(dists(i), dists(j))
           order == SubSeq(seated_players, b, n) \o SubSeq(seated_players, 1, b - 1)
       IN  [p \in Members(seated_players) |->
              position_labels[CHOOSE k \in 1..n : order[k] = p]]

FOLD == <<"F","o","l","d">>
RAISE == <<"R","a","i","s","e">>
CALL == <<"C","a","l","l">>

\* " ".join(self._text(region)).lower() for every seat
ActionWords(caps) ==
  [p \in SeatSet |-> IF caps[p].ok
                       THEN Captured(Lower(JoinSpace(Got(caps[p]))))
                       ELSE CaptureFailed]

\* OCR._actions: seats are read in seated order; a seat read as folded joins
\* the folded set at once, so a capture that fails later leaves it there.
\* caps holds the lower-cased words of each seat's action region and acts is
\* the dictionary built so far.
\* ActionsLoop without the sticky branch for players already folded
RECURSIVE ActionsLoop_NotSticky(_, _, _, _)
ActionsLoop_NotSticky(todo, caps, folded_players, acts) ==
  IF todo = <<>> THEN [raised |-> FALSE, folded_players |-> folded_players,
                       acts |-> acts]
  ELSE LET p == todo[1] IN
       IF ~caps[p].ok THEN [raised |-> TRUE, folded_players |-> folded_players,
                            acts |-> acts]
       ELSE LET words == Got(caps[p])
                a == IF Contains(words, <<"f","o","l","d">>) THEN FOLD
                     ELSE IF Contains(words, <<"r","a","i","s","e">>) THEN RAISE
                     ELSE IF Contains(words, <<"c","a","l","l">>) THEN CALL
                     ELSE DASHES
                f == IF Contains(words, <<"f","o","l","d">>)
                       THEN folded_players \cup {p} ELSE folded_players
            IN  ActionsLoop_NotSticky(Tail(todo), caps, f, acts @@ (p :> a))

RECURSIVE ActionsLoop(_, _, _, _)
ActionsLoop(todo, caps, folded_players, acts) ==
  IF todo = <<>> THEN [raised |-> FALSE, folded_players |-> folded_players,
                       acts |-> acts]
  ELSE LET p == todo[1] IN
       IF ~caps[p].ok THEN [raised |-> TRUE, folded_players |-> folded_players,
                            acts |-> acts]
       ELSE LET words == Got(caps[p])
                a == IF Contains(words, <<"f","o","l","d">>) THEN FOLD
                     ELSE IF p \in folded_players THEN FOLD
                     ELSE IF Contains(words, <<"r","a","i","s","e">>) THEN RAISE
                     ELSE IF Contains(words, <<"c","a","l","l">>) THEN CALL
                     ELSE DASHES
                f == IF Contains(words, <<"f","o","l","d">>)
                       THEN folded_players \cup {p} ELSE folded_players
            IN  ActionsLoop(Tail(todo), caps, f, acts @@ (p :> a))

_actions(caps, seated_players, folded_players) ==
  ActionsLoop(seated_players, caps, folded_players, [p \in {} |-> DASHES])

\* OCR._bets
_bets(caps, seated_players) ==
  IF \E p \in Members(seated_players) : ~caps[p].ok THEN Raised
  ELSE Returned([p \in Members(seated_players) |-> Val(_first(caps[p]))])

(***************************************************************************)
(* GameState and the OCR object                                            *)
(***************************************************************************)
EmptyDict == [p \in {} |-> DASHES]

DictGet(d, k, default) == IF k \in DOMAIN d THEN d[k] ELSE default

\* GameState.__init__
GameStateInit ==
  [pot |-> NA, board |-> <<>>, hero_cards |-> <<>>, players |-> EmptyDict]

\* GameState.update_players: one entry per key of bankrolls
update_players(bankrolls, vpips, positions, actions, bets) ==
  [name \in DOMAIN bankrolls |->
     [bankroll |-> DictGet(bankrolls, name, NA),
      vpip |-> DictGet(vpips, name, DASHES),
      position |-> DictGet(positions, name, DASHES),
      action |-> DictGet(actions, name, DASHES),
      bet |-> DictGet(bets, name, NA)]]

\* GameState.to_json: the JSON document, as the tree it denotes (all keys
\* and leaves are strings, so serialising keeps the structure)
to_json(state) ==
  [pot |-> state.pot, board |-> state.board,
   hero_cards |-> state.hero_cards, players |-> state.players]

\* OCR.__init__; prev_hash "" is the empty sequence
OCRInit ==
  [seated_players |-> <<>>, bankrolls |-> EmptyDict, vpips |-> EmptyDict,
   positions |-> EmptyDict, actions |-> EmptyDict, bets |-> EmptyDict,
   prev_hash |-> <<>>, folded_players |-> {}, last_street_count |-> 0,
   last_hero_cards |-> <<>>, last_board |-> <<>>]

\* HandResetScan without the board-cleared scenario
HandResetScan_NoBoardCleared(last_hero_cards, last_board, hero, board) ==
  \/ Len(last_hero_cards) > 0 /\ Len(hero) = 0
  \/ /\ Len(hero) = 2 /\ Len(last_hero_cards) = 2
     /\ Members(hero) # Members(last_hero_cards)

\* the three hand-reset scenarios of refresh_all, tested one after another
HandResetScan(last_hero_cards, last_board, hero, board) ==
  LET r1 == Len(last_hero_cards) > 0 /\ Len(hero) = 0
      r2 == IF Len(last_board) > 0 /\ Len(board) = 0 THEN TRUE ELSE r1
      r3 == IF Len(hero) = 2 /\ Len(last_hero_cards) = 2
              THEN (IF Members(hero) # Members(last_hero_cards) THEN TRUE ELSE r2)
              ELSE r2
  IN  r3

\* StreetReset clearing the folded set on every street change
StreetReset_ClearsFolded(self, street, hand_reset) ==
  [self EXCEPT
     !.actions = [p \in Members(self.seated_players) |-> DASHES],
     !.bets = [p \in Members(self.seated_players) |-> NA],
     !.folded_players = {},
     !.last_street_count = street]

\* StreetReset never clearing the folded set
StreetReset_KeepsFolded(self, street, hand_reset) ==
  [self EXCEPT
     !.actions = [p \in Members(self.seated_players) |-> DASHES],
     !.bets = [p \in Members(self.seated_players) |-> NA],
     !.last_street_count = street]

\* the street-change branch of refresh_all: tracking is reset instead of read
StreetReset(self, street, hand_reset) ==
  [self EXCEPT
     !.actions = [p \in Members(self.seated_players) |-> DASHES],
     !.bets = [p \in Members(self.seated_players) |-> NA],
     !.folded_players = IF hand_reset THEN {} ELSE @,
     !.last_street_count = street]

\* str(snapshot): dictionaries are compared as their sorted item tuples,
\* which is equality of the dictionaries
SnapshotHash(pot, board, hero, self) ==
  << [pot |-> pot, board |-> board, hero |-> hero,
      bankrolls |-> self.bankrolls, vpips |-> self.vpips,
      positions |-> self.positions, actions |-> self.actions,
      bets |-> self.bets] >>

\* Changed with "and" for "or"
Changed_And(hash_, prev_hash, hand_reset) == hash_ # prev_hash /\ hand_reset

Changed(hash_, prev_hash, hand_reset) == hash_ # prev_hash \/ hand_reset

NoFrame ==
  [result |-> "none", hand_reset |-> FALSE, pot |-> NA, board |-> <<>>,
   hero |-> <<>>, hash_ |-> <<>>, json_state |-> <<>>, words |-> EmptyDict]

\* refresh_all left by an exception: the attributes assigned so far stay
Abort(self, state, file) ==
  [self |-> self, state |-> state, file |-> file,
   frame |-> [NoFrame EXCEPT !.result = "raised"]]

\* Emit keeping the previously retained board on a hand reset
Emit_BoardKeptOnReset(self, state, file, pot, board, hero, hand_reset, words) ==
  LET hash_ == SnapshotHash(pot, board, hero, self)
      changed == Changed(hash_, self.prev_hash, hand_reset)
      state1 == IF changed
                  THEN [pot |-> pot, board |-> board, hero_cards |-> hero,
                        players |-> update_players(self.bankrolls, self.vpips,
                                      self.positions, self.actions, self.bets)]
                  ELSE state
      json_state == IF changed THEN <<to_json(state1)>> ELSE <<>>
  IN  [self |-> [self EXCEPT !.prev_hash = IF changed THEN hash_ ELSE @,
                             !.last_hero_cards = hero,
                             !.last_board = IF hand_reset THEN @ ELSE board],
       state |-> state1,
       file |-> IF changed THEN json_state ELSE file,
       frame |-> [result |-> IF changed THEN "emitted" ELSE "no_update",
                  hand_reset |-> hand_reset, pot |-> pot, board |-> board,
                  hero |-> hero, hash_ |-> hash_, json_state |-> json_state,
                  words |-> words]]

\* lines 280-314 of refresh_all: change detection, emission, retention.
\* The write of game_state.json is taken to succeed: a write the file system
\* refuses is caught and only reported, and changes nothing else.
Emit(self, state, file, pot, board, hero, hand_reset, words) ==
  LET hash_ == SnapshotHash(pot, board, hero, self)
      changed == Changed(hash_, self.prev_hash, hand_reset)
      state1 == IF changed
                  THEN [pot |-> pot, board |-> board, hero_cards |-> hero,
                        players |-> update_players(self.bankrolls, self.vpips,
                                      self.positions, self.actions, self.bets)]
                  ELSE state
      json_state == IF changed THEN <<to_json(state1)>> ELSE <<>>
  IN  [self |-> [self EXCEPT !.prev_hash = IF changed THEN hash_ ELSE @,
                             !.last_hero_cards = hero,
                             !.last_board = board],
       state |-> state1,
       file |-> IF changed THEN json_state ELSE file,
       frame |-> [result |-> IF changed THEN "emitted" ELSE "no_update",
                  hand_reset |-> hand_reset, pot |-> pot, board |-> board,
                  hero |-> hero, hash_ |-> hash_, json_state |-> json_state,
                  words |-> words]]

\* the sampling calls of refresh_all on one set of captures, each with its
\* outcome; vpips and positions are sampled for the players just found
\* seated, actions and bets are sampled only in a steady cycle
Sample(scene) ==
  LET bankR == _bankrolls(scene.bank)
      seated_players == IF bankR.raised THEN <<>> ELSE Val(bankR).seated_players
  IN  [pot |-> _pot(scene.pot),
       board |-> _board(scene.board),
       hero |-> _hero_cards(scene.hero),
       bank |-> bankR,
       vpip |-> _vpips(scene.vpip, seated_players),
       positions |-> _positions(scene.pos, seated_players),
       act |-> ActionWords(scene.act),
       bet |-> _bets(scene.bet, seated_players)]

\* OCR.refresh_all on one sample
refresh_all(self, state, file, sample) ==
  LET potR == sample.pot
      boardR == sample.board
      heroR == sample.hero
      bankR == sample.bank
  IN
  IF potR.raised \/ boardR.raised \/ heroR.raised \/ bankR.raised
    THEN Abort(self, state, file)
  ELSE
  LET pot == Val(potR)
      board == Val(boardR)
      hero == Val(heroR)
      self1 == [self EXCEPT !.bankrolls = Val(bankR).br,
                            !.seated_players = Val(bankR).seated_players]
      vpipR == sample.vpip
  IN
  IF vpipR.raised THEN Abort(self1, state, file)
  ELSE
  LET self2 == [self1 EXCEPT
                  !.vpips = Val(vpipR),
                  !.positions = sample.positions]
      hand_reset == HandResetScan(self.last_hero_cards, self.last_board,
                                  hero, board)
      street == Len(board)
  IN
  IF street # self2.last_street_count \/ hand_reset
    THEN Emit(StreetReset(self2, street, hand_reset), state, file,
              pot, board, hero, hand_reset, EmptyDict)
  ELSE
  LET actR == _actions(sample.act, self2.seated_players, self2.folded_players)
  IN
  IF actR.raised
    THEN Abort([self2 EXCEPT !.folded_players = actR.folded_players],
               state, file)
  ELSE
  LET self3 == [self2 EXCEPT !.folded_players = actR.folded_players,
                             !.actions = actR.acts]
      betR == sample.bet
  IN
  IF betR.raised THEN Abort(self3, state, file)
  ELSE Emit([self3 EXCEPT !.bets = Val(betR)], state, file,
            pot, board, hero, hand_reset,
            [p \in Members(self3.seated_players) |-> Got(sample.act[p])])

(***************************************************************************)
(* ml_pipeline.py: the field cleaner / validator                           *)
(*                                                                         *)
(* A Python float is [kind, h]: kind "num" with h the value in hundredths, *)
(* or kind "nan", "inf", "-inf".  Fractions beyond two digits are cut.     *)
(***************************************************************************)
Num(h) == [kind |-> "num", h |-> h]

DigitVal(c) == CHOOSE n \in 0..9 : <<"0","1","2","3","4","5","6","7","8","9">>[n + 1] = c

RECURSIVE NatOf(_)
NatOf(ds) == IF ds = <<>> THEN 0 ELSE 10 * NatOf(SubSeq(ds, 1, Len(ds) - 1)) + DigitVal(ds[Len(ds)])

\* float(s) for an s that float() accepts
ParseFloat(s0) ==
  LET s == Strip(s0)
      neg == s[1] = "-"
      body == IF s[1] \in {"+", "-"} THEN Tail(s) ELSE s
      dots == {i \in 1..Len(body) : body[i] = "."}
      dot == IF dots = {} THEN Len(body) + 1 ELSE CHOOSE i \in dots : TRUE
      int_part == SubSeq(body, 1, dot - 1)
      frac == SubSeq(SubSeq(body, dot + 1, Len(body)) \o <<"0", "0">>, 1, 2)
      mag == 100 * NatOf(int_part) + NatOf(frac)
  IN  IF Upper(body) = <<"N","A","N">> THEN [kind |-> "nan", h |-> 0]
      ELSE IF Upper(body) \in {<<"I","N","F">>, <<"I","N","F","I","N","I","T","Y">>}
        THEN [kind |-> IF neg THEN "-inf" ELSE "inf", h |-> 0]
      ELSE Num(IF neg THEN 0 - mag ELSE mag)

FloatLess(a, b) ==
  CASE a.kind = "nan" \/ b.kind = "nan" -> FALSE
    [] a.kind = "-inf" -> b.kind # "-inf"
    [] a.kind = "inf" -> FALSE
    [] OTHER -> b.kind = "inf" \/ (b.kind = "num" /\ a.h < b.h)

\* re.findall(r'\d+\.?\d*', s): the first match, or the empty string
FirstNumber(s) ==
  LET starts == {i \in 1..Len(s) : s[i] \in Digits}
  IN  IF starts = {} THEN EmptyStr
      ELSE LET i == CHOOSE k \in starts : \A j \in starts : k <= j
               run(from) == CHOOSE e \in (from - 1)..Len(s) :
                              /\ \A k \in from..e : s[k] \in Digits
                              /\ (e = Len(s) \/ s[e + 1] \notin Digits)
               e1 == run(i)
               e2 == IF e1 < Len(s) /\ s[e1 + 1] = "." THEN run(e1 + 2) ELSE e1
           IN  SubSeq(s, i, e2)

RemoveChars(s, cs) == SelectSeq(s, LAMBDA x : x \notin cs)

\* clean_pot_value on a string (the only type the sampler produces)
clean_pot_value(pot_value) ==
  IF pot_value = NA THEN Num(0)
  ELSE LET clean_pot == RemoveChars(pot_value, {"$", ",", " "})
       IN  IF clean_pot = EmptyStr \/ Upper(clean_pot) = NA THEN Num(0)
           ELSE IF IsFloat(clean_pot) THEN ParseFloat(clean_pot)
           ELSE IF FirstNumber(clean_pot) # EmptyStr
             THEN ParseFloat(FirstNumber(clean_pot))
           ELSE IF IsFloat(pot_value) THEN ParseFloat(pot_value)
           ELSE Num(0)

Ranks ==
  { <<"A">>, <<"K">>, <<"Q">>, <<"J">>, <<"1","0">>, <<"2">>, <<"3">>,
    <<"4">>, <<"5">>, <<"6">>, <<"7">>, <<"8">>, <<"9">> }

\* VALID_CARD_PATTERN.match(card)
VALID_CARD_PATTERN(card) ==
  /\ Len(card) >= 2
  /\ SubSeq(card, 1, Len(card) - 1) \in Ranks
  /\ card[Len(card)] \in SuitSymbols

suit_replacements ==
  << <<<<"S">>, Spade>>, <<<<"S","P","A","D","E","S">>, Spade>>,
     <<<<"S","P","A","D","E">>, Spade>>,
     <<<<"H">>, Heart>>, <<<<"H","E","A","R","T","S">>, Heart>>,
     <<<<"H","E","A","R","T">>, Heart>>,
     <<<<"D">>, Diamond>>, <<<<"D","I","A","M","O","N","D","S">>, Diamond>>,
     <<<<"D","I","A","M","O","N","D">>, Diamond>>,
     <<<<"C">>, Club>>, <<<<"C","L","U","B","S">>, Club>>,
     <<<<"C","L","U","B">>, Club>> >>

\* normalize_card_format
normalize_card_format(card0) ==
  LET card == Strip(Upper(card0))
      hits == {i \in 1..Len(suit_replacements) :
                 EndsWith(card, suit_replacements[i][1])}
  IN  IF StartsWith(card, <<"1","0">>) THEN <<"1","0">> \o SubSeq(card, 3, Len(card))
      ELSE IF StartsWith(card, <<"T">>) THEN <<"1","0">> \o Tail(card)
      ELSE IF hits # {}
        THEN LET i == CHOOSE k \in hits : \A j \in hits : k <= j
             IN  SubSeq(card, 1, Len(card) - Len(suit_replacements[i][1]))
                   \o <<suit_replacements[i][2]>>
      ELSE card

value_corrections ==
  [c \in {"0", "O", "I", "L", "S", "B", "G"} |->
     CASE c \in {"0", "O"} -> "Q"
       [] c \in {"I", "L"} -> "1"
       [] c = "S" -> "5"
       [] c = "B" -> "8"
       [] c = "G" -> "6"]

\* repair_card_ocr_errors; None is the empty string
repair_card_ocr_errors(card) ==
  IF Len(card) < 2 THEN EmptyStr
  ELSE LET value_part == SubSeq(card, 1, Len(card) - 1)
           suit_part == card[Len(card)]
           corrected_value ==
             IF Len(value_part) = 1 /\ value_part[1] \in DOMAIN value_corrections
               THEN <<value_corrections[value_part[1]]>>
               ELSE value_part
       IN  normalize_card_format(corrected_value \o <<suit_part>>)

\* clean_single_card on a string; None is the empty string
clean_single_card(card0) ==
  LET stripped == Strip(card0)
  IN  IF Len(stripped) < 2 THEN EmptyStr
      ELSE LET card == normalize_card_format(stripped)
               repaired_card == repair_card_ocr_errors(card)
           IN  IF VALID_CARD_PATTERN(card) THEN card
               ELSE IF repaired_card # EmptyStr /\ VALID_CARD_PATTERN(repaired_card)
                 THEN repaired_card
               ELSE EmptyStr

\* clean_card_list on a list of strings
clean_card_list(card_list) ==
  SelectSeq([i \in 1..Len(card_list) |-> clean_single_card(card_list[i])],
            LAMBDA c : c # EmptyStr)

\* clean_bankroll_value on a string
clean_bankroll_value(bankroll) ==
  IF Strip(bankroll) = EmptyStr THEN NA
  ELSE LET bankroll_str == Strip(RemoveChars(bankroll, {"$", ","}))
       IN  IF Upper(bankroll_str) = NA \/ bankroll_str = EmptyStr THEN NA
           ELSE IF IsFloat(bankroll_str) THEN bankroll_str
           ELSE IF FirstNumber(bankroll_str) # EmptyStr THEN FirstNumber(bankroll_str)
           ELSE NA

\* clean_vpip_value on a string
clean_vpip_value(vpip) ==
  LET vpip_str == Strip(vpip)
      head == SubSeq(vpip_str, 1, Len(vpip_str) - 1)
  IN  IF vpip_str \in {DASHES, NA, EmptyStr} THEN DASHES
      ELSE IF ~EndsWith(vpip_str, <<"%">>)
        THEN (IF IsFloat(vpip_str) THEN vpip_str \o <<"%">> ELSE DASHES)
      ELSE IF /\ IsFloat(head)
              /\ ~FloatLess(ParseFloat(head), Num(0))
              /\ ~FloatLess(Num(10000), ParseFloat(head))
              /\ ParseFloat(head).kind # "nan"
        THEN vpip_str
      ELSE DASHES

position_corrections ==
  << <<<<"B","U","T","T","O","N">>, <<"B","T","N">>>>,
     <<<<"B","U">>, <<"B","T","N">>>>,
     <<<<"S","M","A","L","L">>, <<"S","B">>>>,
     <<<<"S","M","A","L","L","_","B","L","I","N","D">>, <<"S","B">>>>,
     <<<<"B","I","G">>, <<"B","B">>>>,
     <<<<"B","I","G","_","B","L","I","N","D">>, <<"B","B">>>>,
     <<<<"U","N","D","E","R","_","T","H","E","_","G","U","N">>, <<"U","T","G">>>>,
     <<<<"M","I","D","D","L","E">>, <<"M","P">>>>,
     <<<<"C","U","T","O","F","F">>, <<"C","O">>>>,
     <<<<"H","I","J","A","C","K">>, <<"H","J">>>> >>

\* VALID_POSITION_PATTERN.match(position)
VALID_POSITION_PATTERN(position) ==
  position \in { <<"B","T","N">>, <<"S","B">>, <<"B","B">>, <<"U","T","G">>,
                 <<"M","P">>, <<"C","O">>, <<"H","J">> }

\* clean_position_value on a string
clean_position_value(position) ==
  LET position_str == Upper(Strip(position))
      hits == {i \in 1..Len(position_corrections) :
                 position_corrections[i][1] = position_str}
  IN  IF position_str \in {DASHES, NA, EmptyStr} THEN DASHES
      ELSE IF VALID_POSITION_PATTERN(position_str) THEN position_str
      ELSE IF hits # {} THEN position_corrections[CHOOSE i \in hits : TRUE][2]
      ELSE DASHES

ContainsAny(s, words) == \E w \in words : Contains(s, w)

\* clean_action_value on a string
clean_action_value(action) ==
  LET action_str == Lower(Strip(action))
  IN  IF action_str \in {DASHES, Lower(NA), EmptyStr} THEN DASHES
      ELSE IF ContainsAny(action_str, {<<"f","o","l","d">>}) THEN FOLD
      ELSE IF ContainsAny(action_str, {<<"r","a","i","s","e">>, <<"b","e","t">>,
                                       <<"a","l","l","-","i","n">>,
                                       <<"a","l","l","i","n">>}) THEN RAISE
      ELSE IF ContainsAny(action_str, {<<"c","a","l","l">>,
                                       <<"c","h","e","c","k">>}) THEN CALL
      ELSE DASHES

\* clean_bet_value on a string
clean_bet_value(bet) ==
  LET bet_str == Strip(RemoveChars(bet, {"$", ","}))
  IN  IF Upper(bet_str) \in {NA, DASHES, EmptyStr} THEN NA
      ELSE IF IsFloat(bet_str) THEN bet_str
      ELSE IF FirstNumber(bet_str) # EmptyStr THEN FirstNumber(bet_str)
      ELSE NA

\* clean_players_data on a dictionary of player dictionaries
clean_players_data(players_data) ==
  LET kept == {name \in DOMAIN players_data :
                 /\ players_data[name].bankroll # NA
                 /\ players_data[name].bankroll # EmptyStr
                 /\ clean_bankroll_value(players_data[name].bankroll) # NA}
  IN  [name \in kept |->
         [bankroll |-> clean_bankroll_value(players_data[name].bankroll),
          vpip |-> clean_vpip_value(players_data[name].vpip),
          position |-> clean_position_value(players_data[name].position),
          action |-> clean_action_value(players_data[name].action),
          bet |-> clean_bet_value(players_data[name].bet)]]

\* validate_game_state on the dictionary clean_game_state builds: the four
\* fields are present, the lists are lists and players is a dictionary
validate_game_state(state) ==
  /\ ~FloatLess(state.pot, Num(0))
  /\ Len(state.board) <= 5
  /\ Len(state.hero_cards) <= 2

\* clean_game_state on a JSON document with the four fields; None is <<>>,
\* an accepted state is <<cleaned_state>>
clean_game_state(data) ==
  LET cleaned_state ==
        [pot |-> clean_pot_value(data.pot),
         board |-> clean_card_list(data.board),
         hero_cards |-> clean_card_list(data.hero_cards),
         players |-> clean_players_data(data.players)]
  IN  IF validate_game_state(cleaned_state) THEN <<cleaned_state>> ELSE <<>>

(***************************************************************************)
(* What the screen can show in one polling cycle                           *)
(***************************************************************************)
Black == <<40, 40, 40>>
Red == <<160, 30, 30>>
ButtonBlue == <<100, 180, 230>>
Felt == <<30, 90, 40>>

NoText == Captured(<<>>)
Text(tok) == Captured(<<tok>>)

NoCard == [text |-> NoText, suit |-> Captured(Felt)]
CardAt(tok, rgb) == [text |-> Text(tok), suit |-> Captured(rgb)]

PotOk == { NoText, Text(<<"1","0">>), Text(<<"-","5">>) }

\* both hero regions: nothing, one card, two cards, the same two cards with a
\* misread-but-repairable rank, and two other cards
HeroOk ==
  { <<NoCard, NoCard>>,
    <<CardAt(<<"A">>, Black), NoCard>>,
    <<CardAt(<<"A">>, Black), CardAt(<<"k">>, Black)>>,
    <<CardAt(<<"A">>, Black), CardAt(<<"0">>, Red)>> }

Flop == <<CardAt(<<"2">>, Red), CardAt(<<"T","O">>, Black), CardAt(<<"J">>, Black)>>

BoardOk ==
  { <<NoCard, NoCard, NoCard, NoCard, NoCard>>,
    Flop \o <<NoCard, NoCard>>,
    Flop \o <<CardAt(<<"9">>, Red), NoCard>> }

\* the seat of Player 2 is either empty or occupied; the hero is seated
BankOk ==
  { [p \in SeatSet |-> IF p = "Hero" THEN Text(<<"1","0","0">>) ELSE NoText],
    [p \in SeatSet |-> IF p = "Hero" THEN Text(<<"1","0","0">>)
                       ELSE IF p = "Player 2" THEN Text(<<"$","5","0">>)
                       ELSE NoText] }

VpipOk == { [p \in SeatSet |-> Text(<<"2","5">>)] }

PosOk ==
  { [p \in SeatSet |-> IF p = "Hero" THEN Captured(ButtonBlue) ELSE Captured(Felt)],
    [p \in SeatSet |-> IF p = "Player 2" THEN Captured(ButtonBlue) ELSE Captured(Felt)] }

ActTexts == { <<>>, << <<"F","O","L","D">> >>, << <<"R","a","i","s","e">> >> }

ActOk ==
  { [p \in SeatSet |-> IF p = "Player 2" THEN Captured(a) ELSE NoText] :
      a \in ActTexts }

BetOk == { [p \in SeatSet |-> IF p = "Player 2" THEN Text(<<"5">>) ELSE NoText] }

MkScene(pot, hero, board, bank, vpip, pos, act, bet) ==
  [pot |-> pot, hero |-> hero, board |-> board, bank |-> bank, vpip |-> vpip,
   pos |-> pos, act |-> act, bet |-> bet]

\* scenes in which every capture succeeds; what is shown for a seat that is
\* not seated is never sampled, so it is not varied
OkScenes ==
  { MkScene(pot, hero, board, bank, vpip, pos, act, bet) :
      pot \in PotOk, hero \in HeroOk, board \in BoardOk, bank \in BankOk,
      vpip \in VpipOk, pos \in PosOk, act \in ActOk, bet \in BetOk }

Seated2(sc) == sc.bank["Player 2"] # NoText

Canonical(sc) ==
  Seated2(sc) \/ (sc.pos["Hero"] = Captured(ButtonBlue) /\ sc.act["Player 2"] = NoText)

\* one capture of the scene fails
EarlySites == {"pot", "board_text", "hero_suit", "bank"}
LateSites == {"vpip", "pos", "act_hero", "act_2", "bet"}

WithFailure(sc, site) ==
  CASE site = "pot" -> [sc EXCEPT !.pot = CaptureFailed]
    [] site = "board_text" -> [sc EXCEPT !.board[1].text = CaptureFailed]
    [] site = "hero_suit" -> [sc EXCEPT !.hero[1].suit = CaptureFailed]
    [] site = "bank" -> [sc EXCEPT !.bank["Player 2"] = CaptureFailed]
    [] site = "vpip" -> [sc EXCEPT !.vpip["Hero"] = CaptureFailed]
    [] site = "pos" -> [sc EXCEPT !.pos["Hero"] = CaptureFailed]
    [] site = "act_hero" -> [sc EXCEPT !.act["Hero"] = CaptureFailed]
    [] site = "act_2" -> [sc EXCEPT !.act["Player 2"] = CaptureFailed]
    [] site = "bet" -> [sc EXCEPT !.bet["Hero"] = CaptureFailed]

\* nothing sampled after an early failure matters, so one scene stands for
\* all; a late failure is tried with and without hero cards and a flop
LateBase ==
  { sc \in OkScenes : /\ sc.pot = Text(<<"1","0">>)
                      /\ sc.pos["Hero"] = Captured(ButtonBlue)
                      /\ Seated2(sc)
                      /\ Len(Got(sc.hero[2].text)) = Len(Got(sc.hero[1].text))
                      /\ sc.hero[2].suit # Captured(Red)
                      /\ sc.board[4] = NoCard }

EarlyBase == { sc \in LateBase : /\ sc.hero[1] # NoCard
                                 /\ sc.board[1] # NoCard
                                 /\ sc.act["Player 2"] = NoText }

FailScenes ==
  { WithFailure(sc, site) : sc \in EarlyBase, site \in EarlySites }
    \cup { WithFailure(sc, site) : sc \in LateBase, site \in LateSites }

Scenes == { sc \in OkScenes : Canonical(sc) } \cup FailScenes

\* what refresh_all can sample in one cycle
Samples == { Sample(sc) : sc \in Scenes }

\* what the overlay's polling loop is shown, with an empty board and the
\* hero alone at the table: an empty table (no pot, no cards); a pot of 10
\* with the hero holding no card, one card or two; a pot read as -5 with two
\* cards; or the capture of the pot fails
OverlayScenes ==
  { sc \in OkScenes : /\ ~Seated2(sc)
                      /\ Canonical(sc)
                      /\ sc.board[1] = NoCard
                      /\ sc.hero[2].suit # Captured(Red)
                      /\ sc.pot = NoText => sc.hero[1] = NoCard
                      /\ sc.pot = Text(<<"-","5">>) => sc.hero[2] # NoCard }
    \cup { WithFailure(sc, "pot") : sc \in EarlyBase }

OverlaySamples == { Sample(sc) : sc \in OverlayScenes }

(***************************************************************************)
(* main.py: the overlay's attributes                                       *)
(*                                                                         *)
(* The polling interval is a number of milliseconds that is a Python int   *)
(* or a Python float; it is kept in eighths of a millisecond, which holds  *)
(* every value the back-off can produce exactly.                           *)
(***************************************************************************)
UPDATE_INTERVAL_FAST == 500
UPDATE_INTERVAL_NORMAL == 1000
UPDATE_INTERVAL_SLOW == 2000
INTERVAL_CAP == 5000

MaxErrors == 12
NumThreads == 2

Threads == 1..NumThreads

IntMs(n) == [eighths |-> 8 * n, is_int |-> TRUE]

\* min(interval * 1.5, 5000): the product is a float, the cap an int
BackOff(interval) ==
  IF 3 * interval.eighths <= 2 * 8 * INTERVAL_CAP
    THEN [eighths |-> (3 * interval.eighths) \div 2, is_int |-> FALSE]
    ELSE IntMs(INTERVAL_CAP)

\* PokerOverlay.get_dynamic_interval
get_dynamic_interval(state) ==
  IF Len(state.hero_cards) = 2 THEN IntMs(UPDATE_INTERVAL_FAST)
  ELSE IF state.pot # NA /\ state.pot # <<"0">> THEN IntMs(UPDATE_INTERVAL_NORMAL)
  ELSE IntMs(UPDATE_INTERVAL_SLOW)

\* PokerOverlay.state_unchanged; last is <<>> for None
state_unchanged(current_state, last) ==
  IF last = <<>> THEN FALSE
  ELSE /\ current_state.pot = last[1].pot
       /\ current_state.board = last[1].board
       /\ current_state.hero_cards = last[1].hero_cards

\* handle_error with the back-off applied from the first error on
handle_error_AlwaysBacksOff(errors, interval) ==
  [consecutive_errors |-> errors + 1,
   current_update_interval |->
     IF errors + 1 < 10 THEN BackOff(interval) ELSE IntMs(INTERVAL_CAP)]

\* handle_error multiplying the interval without the cap
handle_error_NoCap(errors, interval) ==
  [consecutive_errors |-> errors + 1,
   current_update_interval |->
     IF errors + 1 < 3 THEN interval
     ELSE [eighths |-> (3 * interval.eighths) \div 2, is_int |-> FALSE]]

\* PokerOverlay.handle_error: the counter and the interval it leaves
handle_error(errors, interval) ==
  [consecutive_errors |-> errors + 1,
   current_update_interval |->
     IF errors + 1 < 3 THEN interval
     ELSE IF errors + 1 < 10 THEN BackOff(interval)
     ELSE IntMs(INTERVAL_CAP)]

\* acquire that never fails
TryAcquire_Always(locked) == TRUE

\* worker_lock.acquire(blocking=False): whether the lock was obtained
TryAcquire(locked) == ~locked

\* the engine consulted whenever any hero card is present
ShouldSolve_AnyCard(hero_cards) == Len(hero_cards) >= 1

\* the test that guards rl_bot.solve
ShouldSolve(hero_cards) == Len(hero_cards) = 2

\* root.after(ms, ...): Tcl accepts an integer delay only and raises on a
\* float, which leaves no callback scheduled
AfterAccepts(interval) == interval.is_int

NoLocal ==
  [json_state |-> <<>>, cleaned_state |-> <<>>, outcome |-> "",
   solve_arg |-> <<>>]

\* thread slots without a live thread: none yet or ended, or ended skipped
Ended == {"none", "skipped"}

\* program counters of a worker that holds the lock
InCycle == {"refresh", "process", "error", "finally"}

(***************************************************************************)
(* State                                                                   *)
(***************************************************************************)
VARIABLES
  ocr,              \* the OCR object's attributes
  game_state,       \* the GameState object
  game_state_json,  \* the file game_state.json: <<>> or <<document>>
  frame,            \* locals and outcome of the latest refresh_all call; words
                    \* are the action words _actions read in it
  worker_lock,      \* TRUE while the lock is held
  worker_running,
  consecutive_errors,
  current_update_interval,
  last_game_state,  \* <<>> for None, else <<current_state>>
  timer,            \* "armed": an after-callback is pending; "fired":
                    \* update_overlay is between starting the thread and
                    \* re-arming; "dead": nothing is scheduled
  pc,               \* where each worker thread is
  local,            \* each worker thread's locals
  phase,            \* where the main thread of main.py is: "constructing",
                    \* "mainloop", "finally" (run()'s finally block),
                    \* "atexit" (the interpreter is exiting), "exited"
  has_rl_bot,       \* hasattr(self, 'rl_bot')
  atexit_registered, \* atexit.register(self.cleanup) has run
  end_session_calls, \* how often rl_bot.end_session has been invoked
  call              \* the latest call of a function of ml_pipeline.py or of
                    \* a sampling helper of ocr.py made on its own:
                    \* [fn, arg, result]

ocr_vars == <<ocr, game_state, game_state_json, frame>>

overlay_vars ==
  <<worker_lock, worker_running, consecutive_errors, current_update_interval,
    last_game_state, timer, pc, local>>

process_vars == <<phase, has_rl_bot, atexit_registered, end_session_calls>>

vars == <<ocr, game_state, game_state_json, frame, worker_lock,
          worker_running, consecutive_errors, current_update_interval,
          last_game_state, timer, pc, local, phase, has_rl_bot,
          atexit_registered, end_session_calls, call>>

NoCall == [fn |-> "", arg |-> <<>>, result |-> <<>>]

Init ==
  /\ ocr = OCRInit
  /\ game_state = GameStateInit
  /\ game_state_json = <<>>
  /\ frame = NoFrame
  /\ worker_lock = FALSE
  /\ worker_running = FALSE
  /\ consecutive_errors = 0
  /\ current_update_interval = IntMs(UPDATE_INTERVAL_NORMAL)
  /\ last_game_state = <<>>
  /\ timer = "armed"
  /\ pc = [t \in Threads |-> "none"]
  /\ local = [t \in Threads |-> NoLocal]
  /\ phase = "mainloop"
  /\ has_rl_bot = TRUE
  /\ atexit_registered = TRUE
  /\ end_session_calls = 0
  /\ call = NoCall

\* one call of refresh_all on what the screen shows
RefreshAll(sample) ==
  LET r == refresh_all(ocr, game_state, game_state_json, sample)
  IN  /\ ocr' = r.self
      /\ game_state' = r.state
      /\ game_state_json' = r.file
      /\ frame' = r.frame

\* OCR.start: refresh_all in a loop; an exception ends the program
start ==
  /\ frame.result # "raised"
  /\ \E sample \in Samples : RefreshAll(sample)
  /\ UNCHANGED <<overlay_vars, process_vars, call>>

NextOCR == start

SpecOCR == Init /\ [][NextOCR]_vars

(***************************************************************************)
(* The overlay: update_overlay on the Tk thread, worker() on its threads   *)
(***************************************************************************)
\* the slot a new thread takes: the lowest one whose thread has ended
FreeSlot == CHOOSE t \in Threads : /\ pc[t] \in Ended
                                   /\ \A u \in Threads : pc[u] \in Ended => t <= u

\* update_overlay, first half: the after-callback fires and starts a worker
\* thread; a thread that cannot be started is reported and ignored
update_overlay_start ==
  /\ phase = "mainloop"
  /\ timer = "armed"
  /\ UNCHANGED <<process_vars, call>>
  /\ timer' = "fired"
  /\ IF \E t \in Threads : pc[t] \in Ended
       THEN /\ pc' = [pc EXCEPT ![FreeSlot] = "acquire"]
            /\ local' = [local EXCEPT ![FreeSlot] = NoLocal]
       ELSE UNCHANGED <<pc, local>>
  /\ UNCHANGED <<ocr_vars, worker_lock, worker_running, consecutive_errors,
                 current_update_interval, last_game_state>>

\* update_overlay, second half: root.after(current_update_interval, ...)
update_overlay_after ==
  /\ phase = "mainloop"
  /\ timer = "fired"
  /\ UNCHANGED <<process_vars, call>>
  /\ timer' = IF AfterAccepts(current_update_interval) THEN "armed" ELSE "dead"
  /\ UNCHANGED <<ocr_vars, worker_lock, worker_running, consecutive_errors,
                 current_update_interval, last_game_state, pc, local>>

\* worker(): the non-blocking acquire; without the lock the worker returns
worker_acquire(t) ==
  /\ phase # "exited"
  /\ pc[t] = "acquire"
  /\ UNCHANGED <<process_vars, call>>
  /\ IF TryAcquire(worker_lock)
       THEN /\ worker_lock' = TRUE
            /\ worker_running' = TRUE
            /\ pc' = [pc EXCEPT ![t] = "refresh"]
       ELSE /\ pc' = [pc EXCEPT ![t] = "skipped"]
            /\ UNCHANGED <<worker_lock, worker_running>>
  /\ UNCHANGED <<ocr_vars, consecutive_errors, current_update_interval,
                 last_game_state, timer, local>>

\* worker(): json_state = self.ocr.refresh_all()
worker_refresh(t) ==
  /\ phase # "exited"
  /\ pc[t] = "refresh"
  /\ UNCHANGED <<process_vars, call>>
  /\ \E sample \in OverlaySamples :
       /\ RefreshAll(sample)
       /\ IF frame'.result = "raised"
            THEN /\ consecutive_errors < MaxErrors
                 /\ pc' = [pc EXCEPT ![t] = "error"]
                 /\ local' = [local EXCEPT ![t].outcome = "refresh_failed"]
            ELSE /\ pc' = [pc EXCEPT ![t] = "process"]
                 /\ local' = [local EXCEPT ![t].json_state = frame'.json_state]
  /\ UNCHANGED <<worker_lock, worker_running, consecutive_errors,
                 current_update_interval, last_game_state, timer>>

\* worker(): from building current_state to the end of the try block
\* current_state is the dictionary built from self.game_state and
\* cleaned_state what ml_pipeline.clean_game_state makes of it
process_state(t, current_state, cleaned_state) ==
  /\ phase # "exited"
  /\ pc[t] = "process"
  /\ UNCHANGED <<process_vars, call>>
  /\ UNCHANGED <<ocr_vars, worker_lock, worker_running, timer>>
  /\ IF local[t].json_state = <<>> /\ state_unchanged(current_state, last_game_state)
       THEN \* display_cached_state() and return
            /\ pc' = [pc EXCEPT ![t] = "finally"]
            /\ local' = [local EXCEPT ![t].outcome = "cached"]
            /\ UNCHANGED <<consecutive_errors, current_update_interval,
                           last_game_state>>
     ELSE IF cleaned_state = <<>>
       THEN \* "Waiting for poker table..." and return
            /\ pc' = [pc EXCEPT ![t] = "finally"]
            /\ local' = [local EXCEPT ![t].outcome = "rejected"]
            /\ UNCHANGED <<consecutive_errors, current_update_interval,
                           last_game_state>>
     ELSE IF ShouldSolve(cleaned_state[1].hero_cards)
       THEN \/ \* rl_bot.solve returns a decision
               /\ pc' = [pc EXCEPT ![t] = "finally"]
               /\ local' = [local EXCEPT ![t].cleaned_state = cleaned_state,
                                         ![t].solve_arg = cleaned_state,
                                         ![t].outcome = "solved"]
               /\ last_game_state' = <<current_state>>
               /\ consecutive_errors' = 0
               /\ current_update_interval' = get_dynamic_interval(game_state)
            \/ \* rl_bot.solve raises
               /\ consecutive_errors < MaxErrors
               /\ pc' = [pc EXCEPT ![t] = "error"]
               /\ local' = [local EXCEPT ![t].cleaned_state = cleaned_state,
                                         ![t].solve_arg = cleaned_state,
                                         ![t].outcome = "solve_failed"]
               /\ UNCHANGED <<consecutive_errors, current_update_interval,
                              last_game_state>>
     ELSE \* "Waiting for cards..."
          /\ pc' = [pc EXCEPT ![t] = "finally"]
          /\ local' = [local EXCEPT ![t].cleaned_state = cleaned_state,
                                    ![t].outcome = "waiting_for_cards"]
          /\ last_game_state' = <<current_state>>
          /\ consecutive_errors' = 0
          /\ current_update_interval' = get_dynamic_interval(game_state)

\* worker(): the try block after refresh_all has returned
worker_process(t) ==
  process_state(t, to_json(game_state), clean_game_state(to_json(game_state)))

\* worker(): except Exception as e: self.handle_error(e)
worker_handle_error(t) ==
  /\ phase # "exited"
  /\ pc[t] = "error"
  /\ UNCHANGED <<process_vars, call>>
  /\ LET r == handle_error(consecutive_errors, current_update_interval)
     IN  /\ consecutive_errors' = r.consecutive_errors
         /\ current_update_interval' = r.current_update_interval
  /\ pc' = [pc EXCEPT ![t] = "finally"]
  /\ UNCHANGED <<ocr_vars, worker_lock, worker_running, last_game_state,
                 timer, local>>

\* worker_finally leaving the lock held after a cycle that failed
worker_finally_KeepsLock(t) ==
  /\ phase # "exited"
  /\ pc[t] = "finally"
  /\ UNCHANGED <<process_vars, call>>
  /\ worker_running' = FALSE
  /\ worker_lock' = (local[t].outcome \in {"refresh_failed", "solve_failed"})
  /\ pc' = [pc EXCEPT ![t] = "none"]
  /\ local' = [local EXCEPT ![t] = NoLocal]
  /\ UNCHANGED <<ocr_vars, consecutive_errors, current_update_interval,
                 last_game_state, timer>>

\* worker(): the finally block, after which the thread ends
worker_finally(t) ==
  /\ phase # "exited"
  /\ pc[t] = "finally"
  /\ UNCHANGED <<process_vars, call>>
  /\ worker_running' = FALSE
  /\ worker_lock' = FALSE
  /\ pc' = [pc EXCEPT ![t] = "none"]
  /\ local' = [local EXCEPT ![t] = NoLocal]
  /\ UNCHANGED <<ocr_vars, consecutive_errors, current_update_interval,
                 last_game_state, timer>>

Next ==
  \/ update_overlay_start
  \/ update_overlay_after
  \/ \E t \in Threads : worker_acquire(t)
  \/ \E t \in Threads : worker_refresh(t)
  \/ \E t \in Threads : worker_process(t)
  \/ \E t \in Threads : worker_handle_error(t)
  \/ \E t \in Threads : worker_finally(t)

Spec == Init /\ [][Next]_vars

\* a worker thread that has reached its finally block runs it
SpecLive == Spec /\ WF_vars(\E t \in Threads : worker_finally(t))

(***************************************************************************)
(* main.py: the life of the process, from PokerOverlay() to its exit       *)
(***************************************************************************)
\* the process before PokerOverlay() is constructed
InitRun ==
  /\ ocr = OCRInit
  /\ game_state = GameStateInit
  /\ game_state_json = <<>>
  /\ frame = NoFrame
  /\ worker_lock = FALSE
  /\ worker_running = FALSE
  /\ consecutive_errors = 0
  /\ current_update_interval = IntMs(UPDATE_INTERVAL_NORMAL)
  /\ last_game_state = <<>>
  /\ timer = "dead"
  /\ pc = [t \in Threads |-> "none"]
  /\ local = [t \in Threads |-> NoLocal]
  /\ phase = "constructing"
  /\ has_rl_bot = FALSE
  /\ atexit_registered = FALSE
  /\ end_session_calls = 0
  /\ call = NoCall

\* PokerOverlay.cleanup: the number of end_session calls it leaves; an
\* exception of end_session is caught and reported
cleanup(has, calls) == IF has THEN calls + 1 ELSE calls

\* PokerOverlay.__init__: it sets rl_bot, registers cleanup with atexit and
\* arms the first trigger; or PokerRLBot() (or a step before it) raises,
\* which __main__ reports as a fatal error before the interpreter exits
construct ==
  /\ phase = "constructing"
  /\ \/ /\ has_rl_bot' = TRUE
        /\ atexit_registered' = TRUE
        /\ timer' = "armed"
        /\ phase' = "mainloop"
     \/ /\ phase' = "atexit"
        /\ UNCHANGED <<has_rl_bot, atexit_registered, timer>>
  /\ UNCHANGED <<ocr_vars, worker_lock, worker_running, consecutive_errors,
                 current_update_interval, last_game_state, pc, local,
                 end_session_calls, call>>

\* run(): root.mainloop() returns (the window is closed) or is left by
\* KeyboardInterrupt
mainloop_exit ==
  /\ phase = "mainloop"
  /\ phase' = "finally"
  /\ UNCHANGED <<ocr_vars, overlay_vars, has_rl_bot, atexit_registered,
                 end_session_calls, call>>

\* run(): finally: self.cleanup()
run_finally ==
  /\ phase = "finally"
  /\ end_session_calls' = cleanup(has_rl_bot, end_session_calls)
  /\ phase' = "atexit"
  /\ UNCHANGED <<ocr_vars, overlay_vars, has_rl_bot, atexit_registered, call>>

\* the interpreter exits: the handlers registered with atexit run, then
\* the process and its daemon threads end
atexit_handlers ==
  /\ phase = "atexit"
  /\ end_session_calls' = IF atexit_registered
                            THEN cleanup(has_rl_bot, end_session_calls)
                            ELSE end_session_calls
  /\ phase' = "exited"
  /\ UNCHANGED <<ocr_vars, overlay_vars, has_rl_bot, atexit_registered, call>>

NextRun ==
  \/ construct
  \/ mainloop_exit
  \/ run_finally
  \/ atexit_handlers
  \/ Next

SpecRun == InitRun /\ [][NextRun]_vars

(***************************************************************************)
(* ml_pipeline.py and the sampling helpers called on their own             *)
(*                                                                         *)
(* Each action is one call of one function on an argument drawn from a     *)
(* bounded set of arguments; call holds the argument and the result.       *)
(***************************************************************************)
\* raw pot readings: unavailable, a plain number, a number with currency
\* marks, a negative number, not-a-number, text around a number
RawPots ==
  { NA, <<"1","0">>, <<"$","2","5",".","5","0">>, <<"-","5">>,
    <<"n","a","n">>, <<"a","b","c","1","2","0">> }

\* raw card lists: empty, valid cards, a card to repair, a card no repair
\* saves, letter-coded cards, and lists longer than a board or a hand
RawCardLists ==
  LET cards == << <<"A", Spade>>, <<"K", Heart>>, <<"2", Diamond>>,
                  <<"1","0", Club>>, <<"9", Spade>>, <<"J", Diamond>> >>
  IN  { <<>>,
        SubSeq(cards, 1, 2),
        SubSeq(cards, 1, 3),
        <<<<"0", Heart>>, <<"X","X">>, <<"a","s">>>>,
        SubSeq(cards, 1, 5),
        cards }

RawPlayer(bankroll, vpip, position, action, bet) ==
  [bankroll |-> bankroll, vpip |-> vpip, position |-> position,
   action |-> action, bet |-> bet]

\* raw players mappings: nobody, the hero with well-formed fields, the
\* hero with fields that need cleaning, and a second seat without a usable
\* bankroll
RawPlayerMaps ==
  { EmptyDict,
    [p \in {"Hero"} |->
       RawPlayer(<<"1","0","0">>, <<"2","5","%">>, <<"B","T","N">>, FOLD, NA)],
    [p \in {"Hero"} |->
       RawPlayer(<<"$","1",",","2","0","0">>, <<"2","5","0">>,
                 <<"b","u","t","t","o","n">>, <<"a","l","l","-","i","n">>,
                 <<"$","5">>)],
    [p \in {"Hero", "Player 2"} |->
       IF p = "Hero"
         THEN RawPlayer(<<"5","0">>, NA, DASHES, DASHES, NA)
         ELSE RawPlayer(NA, <<"3","0","%">>, <<"S","B">>, CALL, <<"2">>)],
    [p \in {"Hero", "Player 2"} |->
       IF p = "Hero"
         THEN RawPlayer(<<"a","b","c">>, <<"1","2">>, <<"B","B">>, RAISE, <<"4">>)
         ELSE RawPlayer(EmptyStr, DASHES, DASHES, DASHES, NA)] }

\* the documents handed to clean_game_state
RawStates ==
  [pot : RawPots, board : RawCardLists, hero_cards : RawCardLists,
   players : RawPlayerMaps]

\* the record of one call; each behaviour of the calls makes a single call
Called(fn, arg, result) == [fn |-> fn, arg |-> arg, result |-> result]

call_clean_game_state ==
  /\ call = NoCall
  /\ \E data \in RawStates :
       call' = Called("clean_game_state", data, clean_game_state(data))
  /\ UNCHANGED <<ocr_vars, overlay_vars, process_vars>>

\* clean_pot_value on a number, as a cleaned document holds it: float() of
\* a float is that float
clean_pot_number(pot_value) == pot_value

\* clean_game_state on the document of a cleaned state, whose pot is a
\* number
clean_cleaned_state(data) ==
  LET cleaned_state ==
        [pot |-> clean_pot_number(data.pot),
         board |-> clean_card_list(data.board),
         hero_cards |-> clean_card_list(data.hero_cards),
         players |-> clean_players_data(data.players)]
  IN  IF validate_game_state(cleaned_state) THEN <<cleaned_state>> ELSE <<>>

\* a successful clean whose result is cleaned again
call_clean_again ==
  /\ call = NoCall
  /\ \E data \in RawStates :
       /\ clean_game_state(data) # <<>>
       /\ call' = Called("clean_again", clean_game_state(data)[1],
                         clean_cleaned_state(clean_game_state(data)[1]))
  /\ UNCHANGED <<ocr_vars, overlay_vars, process_vars>>

\* the spellings of a suit that normalize_card_format names: the symbol,
\* the letter code, the word in singular and plural, in either letter case
SuitSpellings(symbol) ==
  LET upper ==
        CASE symbol = Spade ->
               {<<"S">>, <<"S","P","A","D","E">>, <<"S","P","A","D","E","S">>}
          [] symbol = Heart ->
               {<<"H">>, <<"H","E","A","R","T">>, <<"H","E","A","R","T","S">>}
          [] symbol = Diamond ->
               {<<"D">>, <<"D","I","A","M","O","N","D">>,
                <<"D","I","A","M","O","N","D","S">>}
          [] symbol = Club ->
               {<<"C">>, <<"C","L","U","B">>, <<"C","L","U","B","S">>}
  IN  {<<symbol>>} \cup upper \cup {Lower(w) : w \in upper}

\* the spellings of the ranks: text is what is written, rank what is meant;
\* ten is written 10 or T, letters in either case
RankSpellings ==
  LET upper == {[text |-> r, rank |-> r] : r \in Ranks}
                 \cup {[text |-> <<"T">>, rank |-> <<"1","0">>]}
  IN  upper \cup {[text |-> Lower(r.text), rank |-> r.rank] : r \in upper}

\* the value tokens of the repair tables of repair_card_ocr_errors and
\* _smart_card_correction
RepairValues ==
  { <<"0">>, <<"O">>, <<"I">>, <<"L">>, <<"S">>, <<"B">>, <<"G">>,
    <<"T","O">>, <<"1","O">>, <<"I","O">>, <<"L","O">> }

\* every spelling of every card: text is what is written, card the
\* canonical token of the rank and suit that are meant
CardSpellings ==
  UNION {{[text |-> r.text \o w, card |-> r.rank \o <<symbol>>] :
            r \in RankSpellings, w \in SuitSpellings(symbol)} :
         symbol \in SuitSymbols}

\* the card tokens handed to clean_single_card
CardTokens ==
  {c.text : c \in CardSpellings}
    \cup {v \o <<symbol>> : v \in RepairValues, symbol \in SuitSymbols}

call_clean_single_card ==
  /\ call = NoCall
  /\ \E card \in CardTokens :
       call' = Called("clean_single_card", card, clean_single_card(card))
  /\ UNCHANGED <<ocr_vars, overlay_vars, process_vars>>

\* the VPIP texts handed to clean_vpip_value: numbers inside and outside
\* [0,100] with and without the percent sign, placeholders and text
RawVpips ==
  { <<"4","5">>, <<"4","5","%">>, <<"0">>, <<"1","0","0","%">>,
    <<"1","2",".","5","%">>, <<"2","5","0">>, <<"2","5","0","%">>,
    <<"-","5">>, <<"-","5","%">>, <<"1","0","1">>, <<"n","a","n">>,
    <<"a","b","c">>, <<"a","b","c","%">>, DASHES, NA, EmptyStr }

call_clean_vpip_value ==
  /\ call = NoCall
  /\ \E vpip \in RawVpips :
       call' = Called("clean_vpip_value", vpip, clean_vpip_value(vpip))
  /\ UNCHANGED <<ocr_vars, overlay_vars, process_vars>>

\* the position texts handed to clean_position_value: the codes, the long
\* forms written with a space and with an underscore, other words and
\* placeholders, in either letter case
RawPositions ==
  LET upper ==
        { <<"B","T","N">>, <<"S","B">>, <<"B","B">>, <<"U","T","G">>,
          <<"M","P">>, <<"C","O">>, <<"H","J">>,
          <<"B","U","T","T","O","N">>,
          <<"S","M","A","L","L"," ","B","L","I","N","D">>,
          <<"S","M","A","L","L","_","B","L","I","N","D">>,
          <<"B","I","G"," ","B","L","I","N","D">>,
          <<"B","I","G","_","B","L","I","N","D">>,
          <<"C","U","T","O","F","F">>, <<"H","I","J","A","C","K">>,
          <<"D","E","A","L","E","R">>, <<"X">>, DASHES, NA, EmptyStr }
  IN  upper \cup {Lower(p) : p \in upper}

call_clean_position_value ==
  /\ call = NoCall
  /\ \E position \in RawPositions :
       call' = Called("clean_position_value", position,
                      clean_position_value(position))
  /\ UNCHANGED <<ocr_vars, overlay_vars, process_vars>>

\* the seats whose position indicators are varied
PositionSeats == {"Hero", "Player 2", "Player 3"}

\* OCR._positions with some seats seated, the button shown at one seat and
\* the capture of the indicator failing at some seats
call_positions ==
  /\ call = NoCall
  /\ \E seated \in SUBSET PositionSeats
                      \cup {{Seats[i] : i \in 1..n} : n \in 4..Len(Seats)},
        failed \in SUBSET PositionSeats,
        button \in PositionSeats \cup {"Player 5"} :
       LET caps == [p \in SeatSet |->
                      IF p \in failed THEN CaptureFailed
                      ELSE IF p = button THEN Captured(ButtonBlue)
                      ELSE Captured(Felt)]
       IN  call' = Called("_positions",
                          [caps |-> caps, seated_players |-> SeatList(seated)],
                          _positions(caps, SeatList(seated)))
  /\ UNCHANGED <<ocr_vars, overlay_vars, process_vars>>

\* the bankroll texts of raw players: amounts with and without currency
\* symbol and commas, placeholders, blanks, text with and without digits,
\* and words float() accepts
RawBankrolls ==
  { <<"1","0","0">>, <<"$","1",",","2","0","0">>, <<"1","2",".","5">>,
    NA, EmptyStr, <<" "," ">>, <<"$">>, <<"a","b","c">>,
    <<"a","b","c","1","2","0">>, <<"n","a","n">>, <<"i","n","f">> }

\* clean_players_data on one or two raw players
call_clean_players_data ==
  /\ call = NoCall
  /\ \E hero \in RawBankrolls, other \in RawBankrolls,
        names \in {{"Hero"}, {"Hero", "Player 2"}} :
       LET players_data ==
             [p \in names |->
                RawPlayer(IF p = "Hero" THEN hero ELSE other,
                          <<"2","5","%">>, <<"B","T","N">>, CALL, <<"2">>)]
       IN  call' = Called("clean_players_data", players_data,
                          clean_players_data(players_data))
  /\ UNCHANGED <<ocr_vars, overlay_vars, process_vars>>

\* get_dynamic_interval on a GameState as refresh_all leaves it: the pot as
\* _pot returns it, and no, one or two hero cards
call_get_dynamic_interval ==
  /\ call = NoCall
  /\ \E pot \in {NA, <<"0">>, <<"0",".","0","0">>, <<"1","0">>,
                  <<"2","5",".","5","0">>},
        n \in 0..2 :
       LET state == [pot |-> pot, board |-> <<>>,
                     hero_cards |-> SubSeq(<< <<"A", Spade>>, <<"K", Heart>> >>,
                                           1, n),
                     players |-> EmptyDict]
       IN  call' = Called("get_dynamic_interval", state,
                          get_dynamic_interval(state))
  /\ UNCHANGED <<ocr_vars, overlay_vars, process_vars>>

\* the value tokens read from a card region: the ranks in either letter
\* case, the misreadings _smart_card_correction knows, and tokens it does
\* not know, the empty and the blank token included
RankTokens ==
  valid_cards \cup {Lower(r) : r \in valid_cards}
    \cup { <<"0">>, <<"O">>, <<"o">>, <<"T","O">>, <<"1","O">>, <<"I","O">>,
           <<"L","O">>, <<"t","o">>, <<" ","7"," ">> }
    \cup { EmptyStr, <<" ">>, <<"1">>, <<"T">>, <<"X">>, <<"I">>, <<"L">>,
           <<"S">>, <<"B">>, <<"G">>, <<"1","1">>, <<"A","K">>, <<"Q","0">>,
           <<"1","0","0">> }

call_smart_card_correction ==
  /\ call = NoCall
  /\ \E text_raw \in RankTokens :
       call' = Called("_smart_card_correction", text_raw,
                      _smart_card_correction(text_raw))
  /\ UNCHANGED <<ocr_vars, overlay_vars, process_vars>>

\* OCR._hero_cards: the first region shows any token, alone or after an
\* unknown one; the second shows nothing, a card, an unknown token, or its
\* capture fails
call_hero_cards ==
  /\ call = NoCall
  /\ \E tok \in RankTokens, lead \in {<<>>, << <<"X">> >>},
        rgb \in {Black, Red},
        second \in {NoCard, CardAt(<<"k">>, Black), CardAt(<<"X">>, Red),
                    [text |-> CaptureFailed, suit |-> Captured(Felt)]} :
       LET regs == << [text |-> Captured(lead \o <<tok>>),
                       suit |-> Captured(rgb)], second >>
       IN  call' = Called("_hero_cards", regs, _hero_cards(regs))
  /\ UNCHANGED <<ocr_vars, overlay_vars, process_vars>>

\* OCR._board: each of the five regions shows nothing, a card, a misread
\* ten or an unknown token
call_board ==
  /\ call = NoCall
  /\ \E regs \in [1..5 -> {NoCard, CardAt(<<"9">>, Red),
                            CardAt(<<"T","O">>, Black),
                            CardAt(<<"X">>, Red)}] :
       call' = Called("_board", regs, _board(regs))
  /\ UNCHANGED <<ocr_vars, overlay_vars, process_vars>>

NextCalls ==
  \/ call_clean_game_state
  \/ call_clean_again
  \/ call_clean_single_card
  \/ call_clean_vpip_value
  \/ call_clean_position_value
  \/ call_positions
  \/ call_clean_players_data
  \/ call_get_dynamic_interval
  \/ call_smart_card_correction
  \/ call_hero_cards
  \/ call_board

SpecCalls == Init /\ [][NextCalls]_vars

(***************************************************************************)
(* Properties of refresh_all                                               *)
(***************************************************************************)
\* the step is a call of refresh_all that ran to completion
Completed == frame'.result \in {"emitted", "no_update"}

SeatedNow == Members(ocr'.seated_players)

\* C3: in every completed cycle HandReset is classified exactly when the
\* hero cards disappeared (previous count > 0, current count = 0), or the
\* board was cleared (previous length > 0, current length = 0), or two hero
\* cards were replaced by two cards forming a different set, judged against
\* the hero cards and board retained from the last completed cycle.
C3_HandResetExactly ==
  [][Completed =>
       (frame'.hand_reset <=>
          \/ Len(ocr.last_hero_cards) > 0 /\ Len(frame'.hero) = 0
          \/ Len(ocr.last_board) > 0 /\ Len(frame'.board) = 0
          \/ /\ Len(ocr.last_hero_cards) = 2
             /\ Len(frame'.hero) = 2
             /\ Members(ocr.last_hero_cards) # Members(frame'.hero))]_vars

\* a reset classified with hero cards and a board on the table: new hole
\* cards were dealt without an observed reset
C3_Witness ==
  /\ frame.result = "emitted"
  /\ frame.hand_reset
  /\ Len(frame.hero) = 2
  /\ Len(frame.board) > 0

\* C4: in a completed cycle with no HandReset whose board length differs
\* from the recorded street length, every seated player's action is "--"
\* and bet "N/A" (in the tracking and in the emitted state), the recorded
\* street length becomes the current board length, and the folded-player
\* set is what it was before the cycle.
C4_StreetAdvance ==
  [][(Completed /\ ~frame'.hand_reset
        /\ Len(frame'.board) # ocr.last_street_count) =>
       /\ DOMAIN ocr'.actions = SeatedNow
       /\ DOMAIN ocr'.bets = SeatedNow
       /\ \A p \in SeatedNow :
            /\ ocr'.actions[p] = DASHES
            /\ ocr'.bets[p] = NA
            /\ game_state'.players[p].action = DASHES
            /\ game_state'.players[p].bet = NA
       /\ ocr'.last_street_count = Len(frame'.board)
       /\ ocr'.folded_players = ocr.folded_players]_vars

\* a street advance to the flop that kept a folded player in the folded set
C4_Witness ==
  /\ frame.result = "emitted"
  /\ ~frame.hand_reset
  /\ Len(frame.board) = 3
  /\ "Player 2" \in ocr.folded_players
  /\ "Player 2" \in DOMAIN ocr.actions
  /\ ocr.actions["Player 2"] = DASHES

FoldWord == <<"f","o","l","d">>

\* C6 as claimed: from the read that folded a seat until the next HandReset,
\* every completed cycle in which the seat is seated shows its action as
\* "Fold", cycles classified StreetAdvance included.
C6_FoldShownEveryCycle ==
  [][(Completed /\ ~frame'.hand_reset) =>
       \A p \in ocr.folded_players \cap SeatedNow :
          ocr'.actions[p] = FOLD]_vars

\* C6 amended: a folded seat stays in the folded set until the next
\* HandReset, also through street advances and aborted cycles; in every
\* steady cycle (no reset, board length equal to the recorded street length)
\* in which it is seated its action is "Fold" whatever its action region
\* shows; a seat whose action region shows "fold" in a steady cycle is folded
\* from that cycle on.
C6_StickyFold ==
  [][/\ (frame'.result = "raised" \/ (Completed /\ ~frame'.hand_reset)) =>
          ocr.folded_players \subseteq ocr'.folded_players
     /\ (/\ Completed /\ ~frame'.hand_reset
         /\ Len(frame'.board) = ocr.last_street_count) =>
          /\ DOMAIN frame'.words = SeatedNow
          /\ \A p \in SeatedNow :
               /\ (p \in ocr.folded_players \/ Contains(frame'.words[p], FoldWord))
                    => /\ ocr'.actions[p] = FOLD
                       /\ game_state'.players[p].action = FOLD
                       /\ p \in ocr'.folded_players]_vars

\* a folded seat shown as "Fold" in a steady cycle whose action region read
\* "raise"
C6_Witness ==
  /\ frame.result \in {"emitted", "no_update"}
  /\ "Player 2" \in DOMAIN frame.words
  /\ Contains(frame.words["Player 2"], <<"r","a","i","s","e">>)
  /\ ocr.actions["Player 2"] = FOLD
  /\ game_state.players["Player 2"].action = FOLD

\* C7: a capture failure of a single field is absorbed: refresh_all never
\* ends with an exception and no worker counts the cycle as failed.
C7_FailureAbsorbed ==
  /\ frame.result # "raised"
  /\ \A t \in Threads : local[t].outcome # "refresh_failed"

(***************************************************************************)
(* Properties of the polling loop                                          *)
(***************************************************************************)
\* C1: at most one worker is inside a polling cycle at any time; a worker
\* that does not get the lock ends at once and changes nothing of the OCR
\* object, the GameState or the file; and these change only in a step of
\* the one worker that holds the lock.
C1_OneCycleAtATime ==
  [][/\ Cardinality({t \in Threads : pc'[t] \in InCycle}) <= 1
     /\ \A t \in Threads :
          (pc[t] = "acquire" /\ pc'[t] = "skipped") =>
             /\ worker_lock
             /\ UNCHANGED <<ocr_vars, worker_lock, worker_running,
                            consecutive_errors, current_update_interval,
                            last_game_state>>
     /\ ocr_vars' # ocr_vars =>
          /\ worker_lock
          /\ \E t \in Threads :
               /\ pc[t] = "refresh"
               /\ \A u \in Threads \ {t} : pc[u] \notin InCycle]_vars

\* a worker was turned away while another one was inside its cycle
C1_Witness ==
  \E t, u \in Threads :
     /\ pc[t] = "skipped"
     /\ pc[u] \in {"process", "error"}
     /\ worker_lock

\* C2: every firing of the trigger re-arms the next trigger, whatever
\* happened to the cycles before it: the scheduling step that ends
\* update_overlay always leaves a trigger armed.
C2_TriggerAlwaysRearms ==
  [][(timer = "fired" /\ timer' # "fired") => timer' = "armed"]_vars

\* the cycle that the worker t is about to process will be cleaned and
\* rejected
WillReject(t) ==
  /\ ~(local[t].json_state = <<>>
         /\ state_unchanged(to_json(game_state), last_game_state))
  /\ clean_game_state(to_json(game_state)) = <<>>

\* C8: when the validator rejects the state assembled in a cycle, the
\* cycle's refresh_all left the GameState and the persisted file as they
\* were before the cycle.
C8_RejectedNotEmitted ==
  [][\A t \in Threads :
       (pc[t] = "refresh" /\ pc'[t] = "process" /\ WillReject(t)') =>
          UNCHANGED <<game_state, game_state_json>>]_vars

\* the step is worker t's call of handle_error
HandlesError(t) == pc[t] = "error" /\ pc'[t] = "finally"

CapEighths == 8 * INTERVAL_CAP

\* C9 as claimed: every cycle failure, the first included, increments the
\* counter and strictly increases the interval unless it is at the cap.
C9_EveryFailureBacksOff ==
  [][\A t \in Threads :
       HandlesError(t) =>
          /\ consecutive_errors' = consecutive_errors + 1
          /\ \/ current_update_interval'.eighths > current_update_interval.eighths
             \/ current_update_interval.eighths = CapEighths]_vars

\* C9 amended: every cycle failure increments the counter by one and the
\* worker goes on to its finally block; the first two consecutive failures
\* leave the interval as it is; from the third on the interval is backed
\* off, times 1.5 up to the cap, so strictly larger unless already at the
\* cap.
C9_BackOffFromThird ==
  [][\A t \in Threads :
       HandlesError(t) =>
          /\ consecutive_errors' = consecutive_errors + 1
          /\ consecutive_errors' < 3 => UNCHANGED current_update_interval
          /\ consecutive_errors' >= 3 =>
               /\ current_update_interval'.eighths <= CapEighths
               /\ current_update_interval.eighths < CapEighths =>
                    current_update_interval'.eighths > current_update_interval.eighths
               /\ current_update_interval.eighths = CapEighths =>
                    current_update_interval' = IntMs(INTERVAL_CAP)
               /\ 3 * current_update_interval.eighths <= 2 * CapEighths =>
                    2 * current_update_interval'.eighths
                      = 3 * current_update_interval.eighths]_vars

\* a third consecutive failure has just backed the interval off
C9_Witness ==
  /\ consecutive_errors = 3
  /\ current_update_interval.eighths > 8 * UPDATE_INTERVAL_FAST
  /\ ~current_update_interval.is_int
  /\ \E t \in Threads : pc[t] = "finally" /\ local[t].outcome = "refresh_failed"

\* C10: a worker has invoked rl_bot.solve only on the state its own cycle
\* cleaned and the validator accepted, with exactly two hero cards; a worker
\* that was turned away, short-circuited on no update, or had its state
\* rejected has not invoked it.
C10_SolveOnlyWithTwoCards ==
  \A t \in Threads :
     /\ local[t].solve_arg # <<>> =>
          /\ pc[t] \in {"error", "finally"}
          /\ local[t].outcome \in {"solved", "solve_failed"}
          /\ local[t].solve_arg = clean_game_state(to_json(game_state))
          /\ validate_game_state(local[t].solve_arg[1])
          /\ Len(local[t].solve_arg[1].hero_cards) = 2
     /\ (\/ pc[t] \in {"none", "acquire", "skipped", "refresh", "process"}
         \/ local[t].outcome \in {"cached", "rejected", "waiting_for_cards",
                                  "refresh_failed"})
          => local[t].solve_arg = <<>>

\* the engine was consulted on a cleaned state with two hero cards
C10_Witness ==
  \E t \in Threads :
     /\ local[t].outcome = "solved"
     /\ Len(local[t].solve_arg[1].hero_cards) = 2

(***************************************************************************)
(* Properties of the shutdown sequence                                     *)
(***************************************************************************)
\* C11: over the whole shutdown sequence (mainloop exit, run()'s finally
\* block, the atexit handler) rl_bot.end_session is invoked exactly once:
\* never more than once, and once when a process that had its engine has
\* exited.
C11_EndSessionOnce ==
  /\ end_session_calls <= 1
  /\ (phase = "exited" /\ has_rl_bot) => end_session_calls = 1

(***************************************************************************)
(* Properties of the field cleaner / validator                             *)
(***************************************************************************)
\* C12: every state clean_game_state returns has a pot that is a number
\* >= 0, at most 5 board cards and at most 2 hero cards, each matching the
\* card grammar, and a players mapping; a raw state that would violate
\* this is rejected.
C12_AcceptedIsWellFormed ==
  (call.fn = "clean_game_state" /\ call.result # <<>>) =>
     LET state == call.result[1]
     IN  /\ state.pot.kind = "num"
         /\ state.pot.h >= 0
         /\ Len(state.board) <= 5
         /\ Len(state.hero_cards) <= 2
         /\ \A i \in 1..Len(state.board) : VALID_CARD_PATTERN(state.board[i])
         /\ \A i \in 1..Len(state.hero_cards) :
              VALID_CARD_PATTERN(state.hero_cards[i])
         /\ DOMAIN state.players \subseteq SeatSet

\* C13: cleaning is idempotent: cleaning the result of a successful clean
\* succeeds and yields the identical state.
C13_CleanIdempotent ==
  call.fn = "clean_again" => call.result = <<call.arg>>

\* the corrected rank the repair table documents for a value token
DocumentedRank(v) ==
  CASE v \in {<<"0">>, <<"O">>} -> <<"Q">>
    [] v \in {<<"I">>, <<"L">>} -> <<"1">>
    [] v = <<"S">> -> <<"5">>
    [] v = <<"B">> -> <<"8">>
    [] v = <<"G">> -> <<"6">>
    [] OTHER -> <<"1","0">>

\* C14: for every value token of the repair table followed by a suit
\* symbol, clean_single_card returns the documented corrected rank with the
\* suit preserved instead of dropping the token.
C14_RepairTableApplied ==
  call.fn = "clean_single_card" =>
     \A v \in RepairValues, symbol \in SuitSymbols :
        call.arg = v \o <<symbol>> =>
           call.result = DocumentedRank(v) \o <<symbol>>

\* C15: for every rank (ten written 10 or T) and every suit written as
\* symbol, letter code or word, in either letter case, clean_single_card
\* returns the canonical token of that rank and suit.
C15_AcceptsEverySpelling ==
  call.fn = "clean_single_card" =>
     \A c \in CardSpellings : call.arg = c.text => call.result = c.card

\* the text denotes a number in [0,100], with or without a trailing percent
\* sign
DenotesPercentage(text) ==
  LET number == IF EndsWith(Strip(text), <<"%">>)
                  THEN SubSeq(Strip(text), 1, Len(Strip(text)) - 1)
                  ELSE Strip(text)
  IN  /\ IsFloat(number)
      /\ ParseFloat(number).kind = "num"
      /\ ParseFloat(number).h >= 0
      /\ ParseFloat(number).h <= 100 * 100

\* C16: clean_vpip_value returns something other than "--" only when its
\* input denotes a number in [0,100], with or without a trailing percent
\* sign; numbers below 0 or above 100 yield "--".
C16_VpipInRangeOrDashes ==
  call.fn = "clean_vpip_value" =>
     (call.result # DASHES => DenotesPercentage(call.arg))

\* C17: clean_position_value returns a position code for the codes
\* themselves and for their long forms in any letter case, "button" giving
\* BTN and "small blind" giving SB, and whatever it returns is a position
\* code or "--".
C17_PositionSynonyms ==
  call.fn = "clean_position_value" =>
     LET position == Upper(call.arg)
     IN  /\ VALID_POSITION_PATTERN(position) => call.result = position
         /\ position = <<"B","U","T","T","O","N">> =>
               call.result = <<"B","T","N">>
         /\ position = <<"S","M","A","L","L"," ","B","L","I","N","D">> =>
               call.result = <<"S","B">>
         /\ call.result # DASHES => VALID_POSITION_PATTERN(call.result)

\* C18: when the capture of the position indicator fails for every seated
\* player, _positions gives every seated player the position "--".
C18_NoIndicatorNoPosition ==
  call.fn = "_positions" =>
     LET seated == Members(call.arg.seated_players)
     IN  (seated # {} /\ \A p \in seated : ~call.arg.caps[p].ok) =>
            \A p \in seated : call.result[p] = DASHES

\* C19: a raw player whose bankroll is "N/A", empty or without a numeric
\* substring is absent from the cleaned players, and every player present
\* has a bankroll that is a number written without currency symbol or
\* comma.
C19_PlayersHaveBankroll ==
  call.fn = "clean_players_data" =>
     \A name \in DOMAIN call.arg :
        /\ FirstNumber(call.arg[name].bankroll) = EmptyStr =>
              name \notin DOMAIN call.result
        /\ name \in DOMAIN call.result =>
              /\ IsFloat(call.result[name].bankroll)
              /\ ParseFloat(call.result[name].bankroll).kind = "num"
              /\ \A i \in 1..Len(call.result[name].bankroll) :
                    call.result[name].bankroll[i] \notin {"$", ","}

\* C20: a worker whose refresh_all reported no update ends its cycle with
\* the cached display, without running the cleaner or the decision engine,
\* however earlier cycles ended.
C20_NoUpdateSkipsProcessing ==
  [][\A t \in Threads :
       (pc[t] = "process" /\ pc'[t] # "process"
          /\ local[t].json_state = <<>>) =>
            local'[t].outcome = "cached"]_vars

\* C21: after a completed cycle classified HandReset the folded-player set
\* is empty, every seated player's action is "--" and bet "N/A" in the
\* tracking and in that cycle's state, no action region was read, and the
\* recorded street length is the current board length, whether or not the
\* board length changed in the cycle.
C21_HandResetClearsTracking ==
  [][(Completed /\ frame'.hand_reset) =>
       /\ ocr'.folded_players = {}
       /\ frame'.result = "emitted"
       /\ frame'.words = EmptyDict
       /\ DOMAIN ocr'.actions = SeatedNow
       /\ DOMAIN ocr'.bets = SeatedNow
       /\ \A p \in SeatedNow :
            /\ ocr'.actions[p] = DASHES
            /\ ocr'.bets[p] = NA
            /\ game_state'.players[p].action = DASHES
            /\ game_state'.players[p].bet = NA
       /\ ocr'.last_street_count = Len(frame'.board)]_vars

\* a reset with players seated and a board as long as the one retained
\* before, so that only the reset clears the tracking
C21_Witness ==
  /\ frame.result = "emitted"
  /\ frame.hand_reset
  /\ ocr.seated_players # <<>>
  /\ ocr.folded_players = {}
  /\ Len(frame.hero) = 2
  /\ Len(frame.board) = 3

\* C22: the document in game_state.json was written after cleaning: the
\* cleaner accepts it, so nothing is persisted that cleaning has not
\* accepted.
C22_PersistedAfterCleaning ==
  game_state_json # <<>> => clean_game_state(game_state_json[1]) # <<>>

\* C23: with n >= 1 seated players and the button seat b the first seat of
\* the seated list at minimum distance, the seated list rotated to start at
\* b receives BTN, SB, BB, UTG, MP, CO, HJ truncated to n, in order: exactly
\* the seated players are labelled, no label is used twice and exactly one
\* seat is BTN.
C23_PositionRotation ==
  (call.fn = "_positions" /\ call.arg.seated_players # <<>>) =>
     LET seated == call.arg.seated_players
         n == Len(seated)
         far(i) == PosDist(call.arg.caps[seated[i]])
         b == CHOOSE i \in 1..n :
                /\ \A j \in 1..n : ~DistLess(far(j), far(i))
                /\ \A j \in 1..(i - 1) : DistLess(far(i), far(j))
     IN  /\ DOMAIN call.result = Members(seated)
         /\ \A k \in 1..n :
              call.result[seated[((b + k - 2) % n) + 1]] = position_labels[k]
         /\ \A p, q \in Members(seated) :
              call.result[p] = call.result[q] => p = q
         /\ Cardinality({p \in Members(seated) :
                          call.result[p] = <<"B","T","N">>}) = 1

\* seven players seated with the button at the fifth seat: the hero,
\* fourth from the button, is under the gun
C23_Witness ==
  /\ call.fn = "_positions"
  /\ Len(call.arg.seated_players) = Len(Seats)
  /\ call.result["Player 5"] = <<"B","T","N">>
  /\ call.result["Hero"] = <<"U","T","G">>
  /\ call.result["Player 4"] = <<"H","J">>

C25_AdaptiveInterval ==
  call.fn = "get_dynamic_interval" =>
     call.result =
       IF Len(call.arg.hero_cards) > 0 THEN IntMs(UPDATE_INTERVAL_FAST)
       ELSE IF /\ call.arg.pot # NA
               /\ ParseFloat(call.arg.pot) # Num(0)
         THEN IntMs(UPDATE_INTERVAL_NORMAL)
       ELSE IntMs(UPDATE_INTERVAL_SLOW)

\* C26: _smart_card_correction returns nothing or one of the ranks, and
\* nothing for the empty token and for every token that is neither a rank
\* nor in its substitution table; every card _hero_cards and _board
\* assemble is a rank followed by a suit symbol, at most two hero cards and
\* at most five board cards.
C26_ConservativeRepair ==
  /\ call.fn = "_smart_card_correction" =>
       /\ call.result = EmptyStr \/ call.result \in Ranks
       /\ Upper(Strip(call.arg)) \notin
            Ranks \cup { <<"0">>, <<"O">>, <<"T","O">>, <<"1","O">>,
                         <<"I","O">>, <<"L","O">> } =>
              call.result = EmptyStr
  /\ (call.fn \in {"_hero_cards", "_board"} /\ ~call.result.raised) =>
       /\ Len(Val(call.result)) <= (IF call.fn = "_board" THEN 5 ELSE 2)
       /\ \A i \in 1..Len(Val(call.result)) :
            VALID_CARD_PATTERN(Val(call.result)[i])

\* a hero card read as 0 after an unknown token came back as a queen, next
\* to a king read in lower case
C26_Witness ==
  /\ call.fn = "_hero_cards"
  /\ Got(call.arg[1].text) = << <<"X">>, <<"0">> >>
  /\ ~call.result.raised
  /\ Len(Val(call.result)) = 2
  /\ Val(call.result)[1][1] = "Q"
  /\ Val(call.result)[2][1] = "K"

\* C27: after every completed cycle, emitted or not, the retained snapshot
\* is the cycle's snapshot, GameState holds the cycle's pot, board, hero
\* cards and players, the retained hero cards and board are the cycle's
\* readings, and the recorded street length is the length of the retained
\* board.
C27_RetainedMatchesCycle ==
  [][Completed =>
       /\ ocr'.prev_hash = frame'.hash_
       /\ game_state'.pot = frame'.pot
       /\ game_state'.board = frame'.board
       /\ game_state'.hero_cards = frame'.hero
       /\ game_state'.players =
            update_players(ocr'.bankrolls, ocr'.vpips, ocr'.positions,
                           ocr'.actions, ocr'.bets)
       /\ ocr'.last_hero_cards = frame'.hero
       /\ ocr'.last_board = frame'.board
       /\ ocr'.last_street_count = Len(ocr'.last_board)]_vars

\* a cycle that did not emit, on the flop with two hero cards
C27_Witness ==
  /\ frame.result = "no_update"
  /\ Len(ocr.last_board) = 3
  /\ ocr.last_street_count = 3
  /\ Len(game_state.hero_cards) = 2
  /\ game_state.board = frame.board

\* C28: a worker in its cycle only moves forward towards its finally block
\* (from the no-update return, the rejection, the handled exception and
\* the normal completion alike) and leaves the cycle only through it, with
\* the lock released and worker_running cleared; the lock is held exactly
\* while a worker is in its cycle, so a worker is only turned away while
\* another one is in its cycle; and a worker that has reached its finally
\* block always releases the lock.
C28_GuardAlwaysReleased ==
  /\ [][/\ \A t \in Threads :
            /\ (pc[t] \in InCycle /\ pc'[t] \notin InCycle) =>
                  /\ pc[t] = "finally"
                  /\ ~worker_lock'
                  /\ ~worker_running'
            /\ (pc[t] \in InCycle /\ pc'[t] \in InCycle /\ pc'[t] # pc[t]) =>
                  <<pc[t], pc'[t]>> \in
                    { <<"refresh", "process">>, <<"refresh", "error">>,
                      <<"process", "error">>, <<"process", "finally">>,
                      <<"error", "finally">> }
        /\ worker_lock' <=> \E t \in Threads : pc'[t] \in InCycle
        /\ worker_running' <=> worker_lock'
        /\ \A t \in Threads :
            (pc[t] = "acquire" /\ pc'[t] = "skipped") =>
               \E u \in Threads \ {t} : pc[u] \in InCycle]_vars
  /\ (\E t \in Threads : pc[t] = "finally") ~> ~worker_lock

\* a cycle that failed and a cycle that was fully processed have both ended
\* and the lock is free
C28_Witness ==
  /\ ~worker_lock
  /\ ~worker_running
  /\ consecutive_errors > 0
  /\ last_game_state # <<>>
  /\ \A t \in Threads : pc[t] \in Ended

\* C29: a cycle that ends without raising, whether fully processed, cut
\* short on no update or rejected by the cleaner, leaves the
\* consecutive-failure counter at 0 and the interval at the adaptive
\* interval of the current game state.
C29_NonFailingCycleResets ==
  [][\A t \in Threads :
       (pc[t] = "process" /\ pc'[t] = "finally") =>
          /\ consecutive_errors' = 0
          /\ current_update_interval' = get_dynamic_interval(game_state')]_vars

====
